---- MODULE Spec2Model ----
(***************************************************************************)
(* Model of src/standalone_async/hello_async.cpp: the helloAsync binding   *)
(* and the AsyncHelloWorker task it queues on the host thread pool.        *)
(*                                                                         *)
(* Threads: the runtime (JavaScript) thread runs helloAsync and, later,    *)
(* the completion of each worker; pool threads run Execute.  The runtime   *)
(* thread does one thing at a time (variable main); workers are            *)
(* independent objects (variable workers, indexed in construction order).  *)
(***************************************************************************)
EXTENDS Integers, Sequences, FiniteSets, TLC

VARIABLES
    main,     \* what the runtime thread is doing: position, call in progress
    workers,  \* sequence of AsyncHelloWorker objects, in construction order
    origin,   \* origin[t]: the arguments of the call that constructed workers[t]
    ncalls    \* number of helloAsync invocations made so far

vars == <<main, workers, origin, ncalls>>

\* ------------------------------------------------------------------ bounds
MaxCalls == 2

\* ------------------------------------------------------- host (JS) values
Null == [type |-> "null"]
Undefined == [type |-> "undefined"]
Boolean(b) == [type |-> "boolean", value |-> b]
Number(n) == [type |-> "number", value |-> n]
Function(id) == [type |-> "function", id |-> id]
Object(props) == [type |-> "object", props |-> props]

IsFunction(v) == v.type = "function"
\* a function is an object too, for napi_typeof only "object" and "function" count
IsObject(v) == v.type \in {"object", "function"}
IsBoolean(v) == v.type = "boolean"
IsNullish(v) == v.type \in {"null", "undefined"}
IsTrue(v) == IsBoolean(v) /\ v.value

Props(v) == IF v.type = "object" THEN v.props ELSE << >>
Has(options, key) == key \in DOMAIN Props(options)
Get(options, key) == IF Has(options, key) THEN Props(options)[key] ELSE Undefined

\* ------------------------------------------------------------ text, bytes
\* std::string is a sequence of bytes; a host string a sequence of code units.
Byte == 0 .. 255

RECURSIVE Utf8Decode(_)
Utf8Decode(bytes) ==
    IF Len(bytes) = 0 THEN << >>
    ELSE IF bytes[1] < 128
         THEN <<bytes[1]>> \o Utf8Decode(Tail(bytes))
    ELSE IF bytes[1] \in 192 .. 223 /\ Len(bytes) >= 2 /\ bytes[2] \in 128 .. 191
         THEN <<(bytes[1] - 192) * 64 + (bytes[2] - 128)>>
                  \o Utf8Decode(Tail(Tail(bytes)))
    ELSE <<65533>> \o Utf8Decode(Tail(bytes))

\* Napi::String::New(env, std::string): a host string from UTF-8 bytes
StringNew(str) == [type |-> "string", units |-> Utf8Decode(str)]

\* Napi::Buffer<char>::Copy(env, data, size): a host buffer of size bytes
BufferCopy(data, size) ==
    [type |-> "buffer", bytes |-> [i \in 1 .. size |-> data[i]]]

\* Buffer.prototype.toString(): the buffer's bytes read as UTF-8 text
BufferToString(buf) == [type |-> "string", units |-> Utf8Decode(buf.bytes)]

\* ------------------------------------------- the computation (collaborator)
\* "...threads are busy async bees...hello "
Prefix ==
    <<46, 46, 46, 116, 104, 114, 101, 97, 100, 115, 32, 97, 114, 101, 32,
      98, 117, 115, 121, 32, 97, 115, 121, 110, 99, 32, 98, 101, 101, 115,
      46, 46, 46, 104, 101, 108, 108, 111, 32>>
\* "world"
World == <<119, 111, 114, 108, 100>>
\* "!!!!"
Emphasis == <<33, 33, 33, 33>>

\* what() of the failures the computation can raise (allocation failure)
WorkFailures == {"std::bad_alloc"}

\* detail::do_expensive_work(name, louder): the set of ways the call can end,
\* either returning the phrase or raising a std::exception
do_expensive_work(name, louder) ==
    {[kind |-> "return",
      value |-> Prefix \o name \o (IF louder THEN Emphasis ELSE << >>),
      what |-> ""]}
    \cup {[kind |-> "throw", value |-> << >>, what |-> m] : m \in WorkFailures}

\* ------------------------------------------------------- AsyncHelloWorker
\* a callback invocation: the function called and its positional arguments
Invocation(fn, args) == [fn |-> fn, args |-> args]
ErrorArg(inv) == IF Len(inv.args) >= 1 THEN inv.args[1] ELSE Undefined
ResultArg(inv) == IF Len(inv.args) >= 2 THEN inv.args[2] ELSE Undefined

\* the host error value made from a message
ErrorValue(msg) == [type |-> "error", message |-> msg]

\* constructor whose result_ starts out holding the subject word
AsyncHelloWorker_prefilled(louder, buffer, cb) ==
    [state |-> "Created",
     louder_ |-> louder,
     buffer_ |-> buffer,
     callback |-> cb,
     result_ |-> World,
     error_ |-> "",
     delivered |-> << >>]

\* constructor: Base(cb), louder_(louder), buffer_(buffer); result_ starts as
\* an empty string, the base class's error message starts empty
AsyncHelloWorker(louder, buffer, cb) ==
    [state |-> "Created",
     louder_ |-> louder,
     buffer_ |-> buffer,
     callback |-> cb,
     result_ |-> << >>,
     error_ |-> "",
     delivered |-> << >>]

\* Napi::AsyncWorker::SetError
SetError(w, msg) == [w EXCEPT !.error_ = msg]

\* Execute() whose handler also stores the message as the result
Execute_catchStoresResult(w, r) ==
    IF r.kind = "return"
    THEN [w EXCEPT !.result_ = r.value]
    ELSE [SetError(w, r.what) EXCEPT !.result_ = Prefix]

\* Execute() whose handler is empty: the failure is swallowed
Execute_swallows(w, r) ==
    IF r.kind = "return"
    THEN [w EXCEPT !.result_ = r.value]
    ELSE w

\* Execute(): r is the way do_expensive_work ended
Execute(w, r) ==
    IF r.kind = "return"
    THEN [w EXCEPT !.result_ = r.value]
    ELSE SetError(w, r.what)

\* OnOK() whose buffer branch falls through into the text branch
OnOK_fallsThrough(w) ==
    (IF w.buffer_
     THEN <<Invocation(w.callback, <<Null, BufferCopy(w.result_, Len(w.result_))>>)>>
     ELSE << >>)
    \o <<Invocation(w.callback, <<Null, StringNew(w.result_)>>)>>

\* OnOK() passing the value in the error position
OnOK_valueFirst(w) ==
    IF w.buffer_
    THEN <<Invocation(w.callback, <<BufferCopy(w.result_, Len(w.result_)), Null>>)>>
    ELSE <<Invocation(w.callback, <<StringNew(w.result_), Null>>)>>

\* OnOK() copying one byte too few into the buffer
OnOK_shortCopy(w) ==
    IF w.buffer_
    THEN <<Invocation(w.callback, <<Null, BufferCopy(w.result_, Len(w.result_) - 1)>>)>>
    ELSE <<Invocation(w.callback, <<Null, StringNew(w.result_)>>)>>

\* OnOK(): the callback invocations it makes, in order
OnOK(w) ==
    IF w.buffer_
    THEN <<Invocation(w.callback, <<Null, BufferCopy(w.result_, Len(w.result_))>>)>>
    ELSE <<Invocation(w.callback, <<Null, StringNew(w.result_)>>)>>

\* Napi::AsyncWorker::OnError (not overridden): callback called with the error
OnError(w) == <<Invocation(w.callback, <<ErrorValue(w.error_)>>)>>

\* Napi::AsyncWorker::OnWorkComplete: OnOK when no error was set, else OnError
OnWorkComplete(w) ==
    [w EXCEPT !.delivered = @ \o (IF w.error_ = "" THEN OnOK(w) ELSE OnError(w)),
              !.state = "Completed"]

\* ------------------------------------------------------------- helloAsync
\* info[0], info[1]: an index past the arguments reads as undefined
Arg(info, i) == IF i \in DOMAIN info THEN info[i] ELSE Undefined

\* Napi::TypeError::New(env, msg)
TypeErrorNew(msg) == [type |-> "TypeError", message |-> msg]

\* what the body of helloAsync has done when it reaches a return statement or
\* line 145: the exception left pending, the callback invocations made, the
\* workers constructed and the value it returns at that point
Raised(exception) ==
    [exception |-> exception, calls |-> << >>, constructed |-> << >>, ret |-> Null]

\* info.Length()
InfoLength(info) == Cardinality(DOMAIN info)

\* utils::CallbackError(message, info): calls the last argument with an error
\* object carrying the message, and returns what the callback returned
CallbackError(message, info) ==
    [exception |-> Null,
     calls |-> <<Invocation(Arg(info, InfoLength(info) - 1),
                            <<Object([message |-> message])>>)>>,
     constructed |-> << >>,
     ret |-> Undefined]

Constructed(worker) ==
    [exception |-> Null, calls |-> << >>, constructed |-> <<worker>>, ret |-> Undefined]

\* helloAsync without the return after the failed 'louder' check
helloAsync_louderFallsThrough(info) ==
    LET callback == Arg(info, 1)
        options == Arg(info, 0)
        buffer_val == Get(options, "buffer")
        buffer == IF Has(options, "buffer") THEN buffer_val.value ELSE FALSE
    IN  IF ~IsFunction(callback)
        THEN Raised(TypeErrorNew("second arg 'callback' must be a function"))
        ELSE IF ~IsObject(options)
        THEN CallbackError("first arg 'options' must be an object", info)
        ELSE IF Has(options, "buffer") /\ ~IsBoolean(buffer_val)
        THEN CallbackError("option 'buffer' must be a boolean", info)
        ELSE Constructed(AsyncHelloWorker(IsTrue(Get(options, "louder")),
                                          buffer, callback))

\* helloAsync raising a TypeError for options that are not an object
helloAsync_throwsOnOptions(info) ==
    LET callback == Arg(info, 1)
        options == Arg(info, 0)
        louder_val == Get(options, "louder")
        buffer_val == Get(options, "buffer")
        louder == IF Has(options, "louder") THEN louder_val.value ELSE FALSE
        buffer == IF Has(options, "buffer") THEN buffer_val.value ELSE FALSE
    IN  IF ~IsFunction(callback)
        THEN Raised(TypeErrorNew("second arg 'callback' must be a function"))
        ELSE IF ~IsObject(options)
        THEN Raised(TypeErrorNew("first arg 'options' must be an object"))
        ELSE IF Has(options, "louder") /\ ~IsBoolean(louder_val)
        THEN CallbackError("option 'louder' must be a boolean", info)
        ELSE IF Has(options, "buffer") /\ ~IsBoolean(buffer_val)
        THEN CallbackError("option 'buffer' must be a boolean", info)
        ELSE Constructed(AsyncHelloWorker(louder, buffer, callback))

\* helloAsync without the check that the first argument is an object
helloAsync_noObjectCheck(info) ==
    LET callback == Arg(info, 1)
        options == Arg(info, 0)
        louder_val == Get(options, "louder")
        buffer_val == Get(options, "buffer")
        louder == IF Has(options, "louder") THEN louder_val.value ELSE FALSE
        buffer == IF Has(options, "buffer") THEN buffer_val.value ELSE FALSE
    IN  IF ~IsFunction(callback)
        THEN Raised(TypeErrorNew("second arg 'callback' must be a function"))
        ELSE IF Has(options, "louder") /\ ~IsBoolean(louder_val)
        THEN CallbackError("option 'louder' must be a boolean", info)
        ELSE IF Has(options, "buffer") /\ ~IsBoolean(buffer_val)
        THEN CallbackError("option 'buffer' must be a boolean", info)
        ELSE Constructed(AsyncHelloWorker(louder, buffer, callback))

\* helloAsync reading 'louder' again where it should read 'buffer'
helloAsync_copyPaste(info) ==
    LET callback == Arg(info, 1)
        options == Arg(info, 0)
        louder_val == Get(options, "louder")
        buffer_val == Get(options, "buffer")
        louder == IF Has(options, "louder") THEN louder_val.value ELSE FALSE
        buffer == IF Has(options, "buffer") THEN louder ELSE FALSE
    IN  IF ~IsFunction(callback)
        THEN Raised(TypeErrorNew("second arg 'callback' must be a function"))
        ELSE IF ~IsObject(options)
        THEN CallbackError("first arg 'options' must be an object", info)
        ELSE IF Has(options, "louder") /\ ~IsBoolean(louder_val)
        THEN CallbackError("option 'louder' must be a boolean", info)
        ELSE IF Has(options, "buffer") /\ ~IsBoolean(buffer_val)
        THEN CallbackError("option 'buffer' must be a boolean", info)
        ELSE Constructed(AsyncHelloWorker(louder, buffer, callback))

\* helloAsync checking 'buffer' before 'louder'
helloAsync_bufferFirst(info) ==
    LET callback == Arg(info, 1)
        options == Arg(info, 0)
        louder_val == Get(options, "louder")
        buffer_val == Get(options, "buffer")
        louder == IF Has(options, "louder") THEN louder_val.value ELSE FALSE
        buffer == IF Has(options, "buffer") THEN buffer_val.value ELSE FALSE
    IN  IF ~IsFunction(callback)
        THEN Raised(TypeErrorNew("second arg 'callback' must be a function"))
        ELSE IF ~IsObject(options)
        THEN CallbackError("first arg 'options' must be an object", info)
        ELSE IF Has(options, "buffer") /\ ~IsBoolean(buffer_val)
        THEN CallbackError("option 'buffer' must be a boolean", info)
        ELSE IF Has(options, "louder") /\ ~IsBoolean(louder_val)
        THEN CallbackError("option 'louder' must be a boolean", info)
        ELSE Constructed(AsyncHelloWorker(louder, buffer, callback))

\* lines 95-144 of helloAsync: the checks in the order of the code, each
\* returning at once when it fails, then the construction of the worker
helloAsync(info) ==
    LET callback == Arg(info, 1)
        options == Arg(info, 0)
        louder_val == Get(options, "louder")
        buffer_val == Get(options, "buffer")
        louder == IF Has(options, "louder") THEN louder_val.value ELSE FALSE
        buffer == IF Has(options, "buffer") THEN buffer_val.value ELSE FALSE
    IN  IF ~IsFunction(callback)
        THEN Raised(TypeErrorNew("second arg 'callback' must be a function"))
        ELSE IF ~IsObject(options)
        THEN CallbackError("first arg 'options' must be an object", info)
        ELSE IF Has(options, "louder") /\ ~IsBoolean(louder_val)
        THEN CallbackError("option 'louder' must be a boolean", info)
        ELSE IF Has(options, "buffer") /\ ~IsBoolean(buffer_val)
        THEN CallbackError("option 'buffer' must be a boolean", info)
        ELSE Constructed(AsyncHelloWorker(louder, buffer, callback))

\* ---------------------------------------------------------------- inputs
PropValues == {Boolean(TRUE), Boolean(FALSE), Number(7)}
PropKeys == {"louder", "buffer"}
OptionValues ==
    {Null, Number(7)}
    \cup {Object(p) : p \in UNION {[K -> PropValues] : K \in SUBSET PropKeys}}
CallbackValues == {Function(1), Function(2), Undefined}
Infos == {[i \in 0 .. 1 |-> IF i = 0 THEN o ELSE c] :
              o \in OptionValues, c \in CallbackValues}

\* ------------------------------------------------------------------ state
Idle == [pc |-> "idle", info |-> << >>, exception |-> Null, calls |-> << >>,
         task |-> 0, ret |-> Undefined]

TaskIds == 1 .. Len(workers)

Init ==
    /\ main = Idle
    /\ workers = << >>
    /\ origin = << >>
    /\ ncalls = 0

\* the script calls helloAsync(info[0], info[1]); the body runs to a return
\* statement, or to line 145 with the worker constructed
HelloAsync(info) ==
    /\ main.pc = "idle"
    /\ ncalls < MaxCalls
    /\ LET r == helloAsync(info)
           made == Len(r.constructed) > 0
       IN  /\ workers' = workers \o r.constructed
           /\ origin' = origin \o [i \in 1 .. Len(r.constructed) |-> info]
           /\ main' = [pc |-> IF made THEN "queue" ELSE "return",
                       info |-> info,
                       exception |-> r.exception,
                       calls |-> r.calls,
                       task |-> IF made THEN Len(workers) + 1 ELSE 0,
                       ret |-> r.ret]
    /\ ncalls' = ncalls + 1

\* line 145: worker->Queue()
Queue ==
    /\ main.pc = "queue"
    /\ workers[main.task].state = "Created"
    /\ workers' = [workers EXCEPT ![main.task].state = "Queued"]
    /\ main' = [main EXCEPT !.pc = "return"]
    /\ UNCHANGED <<origin, ncalls>>

\* helloAsync that waits for its worker's Execute() before it returns
Return_waits ==
    /\ main.pc = "return"
    /\ main.task # 0 => workers[main.task].state = "Executed"
    /\ main' = Idle
    /\ UNCHANGED <<workers, origin, ncalls>>

\* helloAsync returns to the script
Return ==
    /\ main.pc = "return"
    /\ main' = Idle
    /\ UNCHANGED <<workers, origin, ncalls>>

\* a pool that runs Execute() again for a worker whose Execute() failed
ExecuteStart_retry(t) ==
    /\ t \in TaskIds
    /\ \/ workers[t].state = "Queued"
       \/ workers[t].state = "Executed" /\ workers[t].error_ # ""
    /\ workers' = [workers EXCEPT ![t].state = "Executing"]
    /\ UNCHANGED <<main, origin, ncalls>>

\* a pool thread takes the queued work and enters Execute()
ExecuteStart(t) ==
    /\ t \in TaskIds
    /\ workers[t].state = "Queued"
    /\ workers' = [workers EXCEPT ![t].state = "Executing"]
    /\ UNCHANGED <<main, origin, ncalls>>

\* Execute() without the try/catch: a failure leaves the pool thread for good
ExecuteFinish_noCatch(t) ==
    /\ t \in TaskIds
    /\ workers[t].state = "Executing"
    /\ \E r \in do_expensive_work(World, workers[t].louder_) :
           workers' = [workers EXCEPT
                          ![t] = IF r.kind = "return"
                                 THEN [Execute(@, r) EXCEPT !.state = "Executed"]
                                 ELSE [@ EXCEPT !.state = "Aborted"]]
    /\ UNCHANGED <<main, origin, ncalls>>

\* Execute() writing its result through a buffer shared by all workers
ExecuteFinish_sharedResult(t) ==
    /\ t \in TaskIds
    /\ workers[t].state = "Executing"
    /\ \E r \in do_expensive_work(World, workers[t].louder_) :
           workers' = [u \in TaskIds |->
                          IF u = t
                          THEN [Execute(workers[u], r) EXCEPT !.state = "Executed"]
                          ELSE IF workers[u].state \in {"Executing", "Executed"}
                          THEN Execute(workers[u], r)
                          ELSE workers[u]]
    /\ UNCHANGED <<main, origin, ncalls>>

\* Execute() that calls the callback itself, from the pool thread
ExecuteFinish_callsBack(t) ==
    /\ t \in TaskIds
    /\ workers[t].state = "Executing"
    /\ \E r \in do_expensive_work(World, workers[t].louder_) :
           workers' = [workers EXCEPT
                          ![t] = [Execute(@, r) EXCEPT
                                     !.state = "Executed",
                                     !.delivered = @ \o OnOK(Execute(workers[t], r))]]
    /\ UNCHANGED <<main, origin, ncalls>>

\* Execute() runs do_expensive_work and returns
ExecuteFinish(t) ==
    /\ t \in TaskIds
    /\ workers[t].state = "Executing"
    /\ \E r \in do_expensive_work(World, workers[t].louder_) :
           workers' = [workers EXCEPT
                          ![t] = [Execute(@, r) EXCEPT !.state = "Executed"]]
    /\ UNCHANGED <<main, origin, ncalls>>

\* completion that does not wait for Execute to return
Complete_early(t) ==
    /\ t \in TaskIds
    /\ main.pc = "idle"
    /\ workers[t].state \in {"Executing", "Executed"}
    /\ workers' = [workers EXCEPT ![t] = OnWorkComplete(@)]
    /\ main' = [Idle EXCEPT !.pc = "destroy", !.task = t]
    /\ UNCHANGED <<origin, ncalls>>

\* the runtime thread, when free, completes a worker whose Execute returned
Complete(t) ==
    /\ t \in TaskIds
    /\ main.pc = "idle"
    /\ workers[t].state = "Executed"
    /\ workers' = [workers EXCEPT ![t] = OnWorkComplete(@)]
    /\ main' = [Idle EXCEPT !.pc = "destroy", !.task = t]
    /\ UNCHANGED <<origin, ncalls>>

\* deletion that may also take a worker whose callback has not been called
Destroy_early(t) ==
    /\ t \in TaskIds
    /\ \/ main.pc = "destroy" /\ main.task = t
       \/ main.pc = "idle" /\ workers[t].state = "Executed"
    /\ workers' = [workers EXCEPT ![t].state = "Destroyed"]
    /\ main' = Idle
    /\ UNCHANGED <<origin, ncalls>>

\* OnWorkComplete ends by deleting the worker
Destroy(t) ==
    /\ t \in TaskIds
    /\ main.pc = "destroy"
    /\ main.task = t
    /\ workers' = [workers EXCEPT ![t].state = "Destroyed"]
    /\ main' = Idle
    /\ UNCHANGED <<origin, ncalls>>

Next ==
    \/ \E info \in Infos : HelloAsync(info)
    \/ Queue
    \/ Return
    \/ \E t \in TaskIds : ExecuteStart(t)
    \/ \E t \in TaskIds : ExecuteFinish(t)
    \/ \E t \in TaskIds : Complete(t)
    \/ \E t \in TaskIds : Destroy(t)

Spec == Init /\ [][Next]_vars

\* the pool and the runtime's event loop run every step that stays enabled
Fairness ==
    /\ WF_vars(Queue)
    /\ WF_vars(Return)
    /\ \A t \in 1 .. MaxCalls :
           /\ WF_vars(ExecuteStart(t))
           /\ WF_vars(ExecuteFinish(t))
           /\ WF_vars(Complete(t))
           /\ WF_vars(Destroy(t))

\* the same program driven by a script that draws its arguments from a
\* smaller set, for the properties checked over whole behaviours
LiveOptionValues ==
    {Null,
     Object(<< >>),
     Object([k \in {"louder"} |-> Boolean(TRUE)]),
     Object([k \in {"buffer"} |-> Number(7)])}
LiveCallbackValues == {Function(1), Undefined}
LiveInfos == {[i \in 0 .. 1 |-> IF i = 0 THEN o ELSE c] :
                  o \in LiveOptionValues, c \in LiveCallbackValues}

NextLive ==
    \/ \E info \in LiveInfos : HelloAsync(info)
    \/ Queue
    \/ Return
    \/ \E t \in TaskIds : ExecuteStart(t)
    \/ \E t \in TaskIds : ExecuteFinish(t)
    \/ \E t \in TaskIds : Complete(t)
    \/ \E t \in TaskIds : Destroy(t)

LiveSpec == Init /\ [][NextLive]_vars /\ Fairness

TypeOK ==
    /\ main.pc \in {"idle", "queue", "return", "destroy"}
    /\ Len(origin) = Len(workers)
    /\ ncalls \in 0 .. MaxCalls


\* ---------------------------------------------------------------- claims
CallInProgress == main.pc \in {"queue", "return"}

\* the four validation checks, as the interface states them
ValidationFails(info) ==
    \/ ~IsFunction(Arg(info, 1))
    \/ ~IsObject(Arg(info, 0))
    \/ (Has(Arg(info, 0), "louder") /\ ~IsBoolean(Get(Arg(info, 0), "louder")))
    \/ (Has(Arg(info, 0), "buffer") /\ ~IsBoolean(Get(Arg(info, 0), "buffer")))

Delivered(t) == workers[t].delivered
Succeeded(t) == workers[t].state \in {"Executed", "Completed", "Destroyed"}
                    /\ workers[t].error_ = ""
Failed(t) == workers[t].state \in {"Executed", "Completed", "Destroyed"}
                 /\ workers[t].error_ # ""

\* C1: a task's completion callback is never invoked more than once, and has
\* been invoked exactly once when the task is destroyed, whatever its inputs
\* and whether its computation succeeded or failed
C1_CallbackExactlyOnce ==
    \A t \in TaskIds :
        /\ Len(Delivered(t)) <= 1
        /\ workers[t].state = "Destroyed" => Len(Delivered(t)) = 1

C1_Witness ==
    \E t, u \in TaskIds :
        /\ workers[t].state = "Destroyed" /\ Succeeded(t) /\ workers[t].buffer_
        /\ workers[u].state = "Destroyed" /\ Failed(u)

\* C2: under fair scheduling of the pool and the runtime thread, every queued
\* task eventually has its callback invoked
C2_QueuedTaskCompletes ==
    \A t \in 1 .. MaxCalls :
        (t \in TaskIds /\ workers[t].state = "Queued")
            ~> (t \in TaskIds /\ Len(workers[t].delivered) >= 1)

C2_Witness ==
    \E t \in TaskIds : workers[t].state = "Completed" /\ Len(Delivered(t)) = 1

\* C3: every callback invocation made on completion is error-first with
\* exactly one slot populated: the error alone when the task's error is set,
\* the result alone otherwise
C3_ErrorFirst ==
    \A t \in TaskIds :
        \A i \in 1 .. Len(Delivered(t)) :
            LET inv == Delivered(t)[i]
            IN  /\ workers[t].error_ # ""
                       => /\ ErrorArg(inv) = ErrorValue(workers[t].error_)
                          /\ IsNullish(ResultArg(inv))
                /\ workers[t].error_ = ""
                       => /\ ErrorArg(inv) = Null
                          /\ ResultArg(inv).type \in {"string", "buffer"}
                /\ IsNullish(ErrorArg(inv)) # IsNullish(ResultArg(inv))

C3_Witness ==
    \E t, u \in TaskIds :
        /\ Len(Delivered(t)) = 1 /\ Failed(t)
        /\ Len(Delivered(u)) = 1 /\ Succeeded(u)

\* C4: a call of helloAsync that fails a validation check constructs and
\* queues no task, and every task there is comes from a call that passed all
\* the checks, so no execute or complete step runs for a failing call
C4_NoTaskOnValidationFailure ==
    [][/\ (main.pc = "idle" /\ main'.pc \in {"queue", "return"}
              /\ ValidationFails(main'.info))
          => (workers' = workers /\ main'.task = 0 /\ main'.pc = "return")
       /\ \A t \in 1 .. Len(workers') : ~ValidationFails(origin'[t])]_vars

C4_Witness ==
    /\ main.pc = "return"
    /\ IsFunction(Arg(main.info, 1))
    /\ Has(Arg(main.info, 0), "louder")
    /\ ~IsBoolean(Get(Arg(main.info, 0), "louder"))
    /\ main.task = 0
    /\ Len(workers) = 1

\* C5 as stated: every failed validation check raises a type error
C5_EveryFailureThrows ==
    (CallInProgress /\ ValidationFails(main.info))
        => (main.exception.type = "TypeError" /\ main.task = 0)

\* C5, amended: a callback that is not a function raises a type error and
\* nothing else happens; with a function as callback, any other failed check
\* raises nothing and hands an error to the callback within the call; in both
\* cases no task is created
C5_ThrowOnlyForCallback ==
    CallInProgress =>
        /\ ~IsFunction(Arg(main.info, 1))
               => /\ main.exception.type = "TypeError"
                  /\ main.calls = << >>
                  /\ main.task = 0
        /\ (IsFunction(Arg(main.info, 1)) /\ ValidationFails(main.info))
               => /\ main.exception = Null
                  /\ Len(main.calls) = 1
                  /\ main.calls[1].fn = Arg(main.info, 1)
                  /\ ~IsNullish(ErrorArg(main.calls[1]))
                  /\ main.task = 0

C5_Witness ==
    /\ main.pc = "return"
    /\ IsFunction(Arg(main.info, 1))
    /\ ~IsObject(Arg(main.info, 0))
    /\ main.exception = Null
    /\ Len(main.calls) = 1

\* C6: with a function as callback and a first argument that is not an
\* object, the callback is invoked within the call with a non-null error and
\* no result, and no task is constructed for that call
C6_SyncErrorCallback ==
    /\ (CallInProgress /\ IsFunction(Arg(main.info, 1)) /\ ~IsObject(Arg(main.info, 0)))
           => /\ main.pc = "return"
              /\ Len(main.calls) = 1
              /\ main.calls[1].fn = Arg(main.info, 1)
              /\ ~IsNullish(ErrorArg(main.calls[1]))
              /\ IsNullish(ResultArg(main.calls[1]))
              /\ main.task = 0
    /\ \A t \in TaskIds : IsObject(Arg(origin[t], 0))

C6_Witness ==
    /\ main.pc = "return"
    /\ Arg(main.info, 1) = Function(2)
    /\ Arg(main.info, 0) = Null
    /\ Len(main.calls) = 1
    /\ Len(workers) = 1

\* what a task built from the arguments info delivers when it succeeds
ExpectedText(info) ==
    Prefix \o World
        \o (IF IsTrue(Get(Arg(info, 0), "louder")) THEN Emphasis ELSE << >>)
ExpectedValue(info) ==
    IF IsTrue(Get(Arg(info, 0), "buffer"))
    THEN [type |-> "buffer", bytes |-> ExpectedText(info)]
    ELSE [type |-> "string", units |-> ExpectedText(info)]

\* C7: whatever the interleaving of several tasks, each task's callback - the
\* function its own call passed - is invoked at most once, and exactly once by
\* its completion, with a value fixed by the task's own louder and buffer
\* inputs (or its own error); a step of one task changes no other task, and
\* no step changes a task's inputs
C7_NoCrossContamination ==
    [][/\ \A t \in 1 .. Len(workers') :
              /\ Len(workers'[t].delivered) <= 1
              /\ workers'[t].state \in {"Completed", "Destroyed"}
                     => Len(workers'[t].delivered) = 1
              /\ \A i \in 1 .. Len(workers'[t].delivered) :
                     LET inv == workers'[t].delivered[i]
                     IN  /\ inv.fn = Arg(origin'[t], 1)
                         /\ \/ inv.args = <<Null, ExpectedValue(origin'[t])>>
                            \/ /\ workers'[t].error_ \in WorkFailures
                               /\ inv.args = <<ErrorValue(workers'[t].error_)>>
       /\ \A t \in TaskIds :
              /\ workers'[t] # workers[t]
                     => \A u \in TaskIds \ {t} : workers'[u] = workers[u]
              /\ workers'[t].louder_ = workers[t].louder_
              /\ workers'[t].buffer_ = workers[t].buffer_
              /\ workers'[t].callback = workers[t].callback]_vars

C7_Witness ==
    /\ Len(workers) = 2
    /\ workers[1].louder_ # workers[2].louder_
    /\ workers[1].callback # workers[2].callback
    /\ workers[1].state = "Executed" /\ Succeeded(1)
    /\ workers[2].state = "Completed" /\ Succeeded(2)

\* C8: for the same louder value, the buffer delivered with buffer = true
\* decodes to the text delivered with buffer = false
C8_BufferDecodesToText ==
    \A t, u \in TaskIds :
        (/\ Succeeded(t) /\ Len(Delivered(t)) = 1 /\ workers[t].buffer_
         /\ Succeeded(u) /\ Len(Delivered(u)) = 1 /\ ~workers[u].buffer_
         /\ workers[t].louder_ = workers[u].louder_)
            => /\ ResultArg(Delivered(t)[1]).type = "buffer"
               /\ ResultArg(Delivered(u)[1]).type = "string"
               /\ BufferToString(ResultArg(Delivered(t)[1])) = ResultArg(Delivered(u)[1])

C8_Witness ==
    \E t, u \in TaskIds :
        /\ Succeeded(t) /\ Len(Delivered(t)) = 1 /\ workers[t].buffer_
        /\ Succeeded(u) /\ Len(Delivered(u)) = 1 /\ ~workers[u].buffer_
        /\ workers[t].louder_ /\ workers[u].louder_

\* C9: a task carries louder_ equal to the option 'louder' when it is present
\* and boolean and false when it is absent, and buffer_ likewise from
\* 'buffer', each whatever the other is
C9_OptionsMapToTask ==
    \A t \in TaskIds :
        LET options == Arg(origin[t], 0)
        IN  /\ (Has(options, "louder") /\ IsBoolean(Get(options, "louder")))
                   => workers[t].louder_ = Get(options, "louder").value
            /\ ~Has(options, "louder") => workers[t].louder_ = FALSE
            /\ (Has(options, "buffer") /\ IsBoolean(Get(options, "buffer")))
                   => workers[t].buffer_ = Get(options, "buffer").value
            /\ ~Has(options, "buffer") => workers[t].buffer_ = FALSE

C9_Witness ==
    \E t, u \in TaskIds :
        /\ Arg(origin[t], 0) = Object([k \in {"louder"} |-> Boolean(TRUE)])
        /\ workers[t].louder_ /\ ~workers[t].buffer_
        /\ Arg(origin[u], 0) = Object([k \in {"buffer"} |-> Boolean(TRUE)])
        /\ ~workers[u].louder_ /\ workers[u].buffer_

\* C10: from the end of execute until the task is destroyed, exactly one of
\* the task's result (a non-empty string) and error (a non-empty message) is
\* populated
C10_ResultXorError ==
    \A t \in TaskIds :
        workers[t].state \in {"Executed", "Completed", "Destroyed"}
            => (Len(workers[t].result_) > 0) # (workers[t].error_ # "")

C10_Witness ==
    \E t, u \in TaskIds :
        /\ workers[t].state = "Executed" /\ workers[t].error_ # ""
        /\ workers[u].state = "Destroyed" /\ Len(workers[u].result_) > 0

\* C11: a task holds no result (its result_ is the empty string) while it is
\* Created, Queued or Executing, and still holds none after an execute that
\* failed
C11_NoResultBeforeSuccess ==
    \A t \in TaskIds :
        (workers[t].state \in {"Created", "Queued", "Executing"} \/ Failed(t))
            => workers[t].result_ = << >>

C11_Witness ==
    \E t, u \in TaskIds :
        /\ workers[t].state = "Executing" /\ workers[t].result_ = << >>
        /\ workers[u].state = "Completed" /\ Failed(u) /\ workers[u].result_ = << >>

C13_ExecuteBeforeComplete ==
    [][\A t \in TaskIds :
           /\ (workers'[t].delivered # workers[t].delivered
                  \/ (workers'[t].state = "Completed" /\ workers[t].state # "Completed"))
                  => workers[t].state = "Executed"
           /\ workers'[t].state \in {"Created", "Queued", "Executing"}
                  => workers'[t].delivered = << >>]_vars

C13_Witness ==
    \E t, u \in TaskIds :
        /\ workers[t].state = "Completed" /\ Len(Delivered(t)) = 1
        /\ workers[u].state = "Executing" /\ Delivered(u) = << >>

\* the state of a task in the terms of the state machine: Executed is
\* Succeeded or Failed according to the error
TaskState(w) ==
    IF w.state = "Executed"
    THEN (IF w.error_ = "" THEN "Succeeded" ELSE "Failed")
    ELSE w.state

TaskRank(w) ==
    CASE TaskState(w) = "Created" -> 1
      [] TaskState(w) = "Queued" -> 2
      [] TaskState(w) = "Executing" -> 3
      [] TaskState(w) \in {"Succeeded", "Failed"} -> 4
      [] TaskState(w) = "Completed" -> 5
      [] TaskState(w) = "Destroyed" -> 6
      [] OTHER -> 0

\* C14: a task starts Created and every change of its state takes it to the
\* next state of Created, Queued, Executing, Succeeded or Failed, Completed,
\* Destroyed: none is skipped, none is entered again, none goes backwards,
\* and a Succeeded task never becomes Failed or the reverse
C14_StrictStateOrder ==
    [][/\ \A t \in TaskIds :
              /\ TaskRank(workers[t]) \in 1 .. 6
              /\ TaskState(workers'[t]) # TaskState(workers[t])
                     => TaskRank(workers'[t]) = TaskRank(workers[t]) + 1
       /\ \A t \in (1 .. Len(workers')) \ TaskIds :
              TaskState(workers'[t]) = "Created"]_vars

C14_Witness ==
    \E t, u \in TaskIds :
        /\ workers[t].state = "Destroyed" /\ workers[t].error_ = ""
        /\ workers[u].state = "Destroyed" /\ workers[u].error_ # ""

\* C15: a task is destroyed only once its callback has been invoked; a
\* destroyed task is never acted on again (no step changes it, so it is
\* neither executed, completed, called back nor destroyed a second time), and
\* the runtime thread is not left holding it for a later step
C15_DestroyedAfterCallback ==
    [][\A t \in TaskIds :
           /\ (workers'[t].state = "Destroyed" /\ workers[t].state # "Destroyed")
                  => /\ workers[t].state = "Completed"
                     /\ Len(workers[t].delivered) = 1
           /\ workers[t].state = "Destroyed" => workers'[t] = workers[t]
           /\ workers'[t].state = "Destroyed"
                  => ~(main'.pc \in {"queue", "destroy"} /\ main'.task = t)]_vars

C15_Witness ==
    \E t, u \in TaskIds :
        /\ workers[t].state = "Destroyed" /\ Len(Delivered(t)) = 1
        /\ workers[u].state = "Executing"

\* C16: a step of a pool thread (one taken on a Queued or Executing worker)
\* leaves the runtime thread's state alone, makes no callback invocation and
\* no host value, changes no other worker, and writes only the worker's own
\* result and error, with values fixed by the worker's own louder_; every
\* callback invocation is made by a step of the runtime thread, in the
\* completion of that worker or inside helloAsync
C16_HostStateOnRuntimeThread ==
    [][/\ \A t \in TaskIds :
              /\ (workers[t].state \in {"Queued", "Executing"}
                     /\ workers'[t] # workers[t])
                     => /\ main' = main
                        /\ \A u \in TaskIds :
                               workers'[u].delivered = workers[u].delivered
                        /\ \A u \in TaskIds \ {t} : workers'[u] = workers[u]
                        /\ workers'[t].louder_ = workers[t].louder_
                        /\ workers'[t].buffer_ = workers[t].buffer_
                        /\ workers'[t].callback = workers[t].callback
                        /\ workers'[t].result_ \in
                               {workers[t].result_}
                               \cup {r.value : r \in do_expensive_work(
                                                   World, workers[t].louder_)}
                        /\ workers'[t].error_ \in
                               {workers[t].error_}
                               \cup {r.what : r \in do_expensive_work(
                                                  World, workers[t].louder_)}
              /\ workers'[t].delivered # workers[t].delivered
                     => /\ main.pc = "idle"
                        /\ main'.pc = "destroy"
                        /\ main'.task = t
       /\ (main'.calls # main.calls /\ main'.calls # << >>)
              => (main.pc = "idle" /\ main'.pc = "return")]_vars

C16_Witness ==
    \E t, u \in TaskIds :
        /\ workers[t].state = "Executed" /\ Delivered(t) = << >>
        /\ workers[u].state = "Completed" /\ Len(Delivered(u)) = 1
        /\ main.pc = "destroy" /\ main.task = u

\* C17: while the call of helloAsync that built a task has not returned,
\* the task's callback has not been invoked, and the call can take its next
\* step (queueing, then returning) whatever the pool has or has not done with
\* the task
C17_SubmitDoesNotBlock ==
    (CallInProgress /\ main.task # 0)
        => /\ Delivered(main.task) = << >>
           /\ workers[main.task].state \in {"Created", "Queued", "Executing", "Executed"}
           /\ main.pc = "queue" => ENABLED Queue
           /\ main.pc = "return" => ENABLED Return

C17_Witness ==
    /\ main.pc = "return"
    /\ main.task = 2
    /\ workers[2].state = "Queued"
    /\ workers[1].state = "Executing"

BadOption(options, key) == Has(options, key) /\ ~IsBoolean(Get(options, key))

\* the error a call hands to its callback, as a message
SyncErrorMessage == ErrorArg(main.calls[1]).props.message

\* C18: a call of helloAsync has exactly one outcome - a type error raised, one
\* error callback within the call, or one task - and which one is fixed by the
\* first failing check in the order callback, options, 'louder', 'buffer':
\* a bad callback raises and invokes nothing even when the options are bad
\* too, and a bad 'louder' is reported even when 'buffer' is bad too
C18_FirstFailingCheckDecides ==
    CallInProgress =>
        LET callback == Arg(main.info, 1)
            options == Arg(main.info, 0)
            raised == main.exception # Null
            called == main.calls # << >>
            queued == main.task # 0
        IN  /\ Len(main.calls) <= 1
            /\ (raised /\ ~called /\ ~queued)
                   \/ (~raised /\ called /\ ~queued)
                   \/ (~raised /\ ~called /\ queued)
            /\ IF ~IsFunction(callback)
               THEN main.exception
                        = TypeErrorNew("second arg 'callback' must be a function")
               ELSE IF ~IsObject(options)
               THEN called /\ SyncErrorMessage = "first arg 'options' must be an object"
               ELSE IF BadOption(options, "louder")
               THEN called /\ SyncErrorMessage = "option 'louder' must be a boolean"
               ELSE IF BadOption(options, "buffer")
               THEN called /\ SyncErrorMessage = "option 'buffer' must be a boolean"
               ELSE queued

C18_Witness ==
    /\ main.pc = "return"
    /\ IsFunction(Arg(main.info, 1))
    /\ BadOption(Arg(main.info, 0), "louder")
    /\ BadOption(Arg(main.info, 0), "buffer")
    /\ Len(main.calls) = 1
    /\ SyncErrorMessage = "option 'louder' must be a boolean"

====
